---- MODULE Spec2Model ----
(***************************************************************************)
(* Book catalog served by two front-ends (REST: rest_server/server.py,     *)
(* gRPC: grpc_server/server.py).  Each handler reads and rewrites a JSON   *)
(* file named DB_PATH with no lock.  The model keeps the file system, the  *)
(* position of every request handler, and history variables recording     *)
(* what each call saw and returned.                                        *)
(***************************************************************************)
EXTENDS Integers, Sequences, FiniteSets, TLC

\* ------------------------------------------------------------------ bounds
MaxCalls == 3      \* client calls issued in one behaviour
MaxFaults == 1     \* I/O failures the environment injects in one behaviour
MaxRunning == 2    \* handlers the servers run at the same time

Calls == 1..MaxCalls
FrontEnds == {"rest", "grpc"}

\* ------------------------------------------------------------ the database
\* DB_PATH = os.path.join(os.path.dirname(__file__), "books.json"): the
\* directory of the server module that evaluates it.
DB_PATH(fe) == IF fe = "rest" THEN "rest_server/books.json"
                              ELSE "grpc_server/books.json"

Paths == {DB_PATH(fe) : fe \in FrontEnds}

Book(i, t, a, y) == [id |-> i, title |-> t, author |-> a, year |-> y]

NoBook == Book(0, "", "", 0)

\* Requests the clients send: (title, author, year).
Requests == { [title |-> "Clean Code", author |-> "Martin", year |-> 2008],
              [title |-> "Design Patterns", author |-> "GoF", year |-> 1994] }

\* JSON bodies of POST /books: objects with any keys.  The well-formed ones
\* carry title, author and year, and here also a key "id" of the caller's.
Bodies == { [title |-> "Clean Code", author |-> "Martin", year |-> 2008, id |-> 0],
            [title |-> "Design Patterns", author |-> "GoF", year |-> 1994, id |-> 99] }

\* Bodies that lack a key the handler reads.
MalformedBodies == { [author |-> "Martin", year |-> 2008],
                     [title |-> "Clean Code", year |-> 2008],
                     [title |-> "Clean Code", author |-> "Martin"] }

\* What the client asked for, without the keys the handlers never read.
Asked(r) == [title |-> r.title, author |-> r.author, year |-> r.year]

\* ---------------------------------------------------------- JSON encoding
\* json.dump(books, f, indent=2) writes the document chunk by chunk: "[",
\* one object per book, "]".  A file is the sequence of chunks it holds.
LBRACKET == [kind |-> "[", book |-> NoBook]
RBRACKET == [kind |-> "]", book |-> NoBook]
NUL == [kind |-> "nul", book |-> NoBook]   \* a hole left by a write past the end
Obj(b) == [kind |-> "obj", book |-> b]

json_dump(books) ==
    <<LBRACKET>> \o [i \in 1..Len(books) |-> Obj(books[i])] \o <<RBRACKET>>

\* json.load(f): the list of books of a complete document; any other
\* content (empty file, missing "]", data after "]") raises JSONDecodeError.
WellFormed(data) ==
    /\ Len(data) >= 2
    /\ data[1] = LBRACKET
    /\ data[Len(data)] = RBRACKET
    /\ \A i \in 2..(Len(data) - 1) : data[i].kind = "obj"

json_load(data) ==
    IF WellFormed(data)
    THEN [ok |-> TRUE, books |-> [i \in 1..(Len(data) - 2) |-> data[i + 1].book]]
    ELSE [ok |-> FALSE, books |-> <<>>]

Absent == [exists |-> FALSE, data |-> <<>>]
Stored(books) == [exists |-> TRUE, data |-> json_dump(books)]

\* Contents a store may hold when the servers start.
Old(i) == Book(i, "Old", "Anon", 1990)
InitStores == { Absent, Stored(<<>>), Stored(<<Old(1), Old(3)>>) }

VARIABLES
    fs,          \* fs[p]: the file at path p: [exists, data]
    faults,      \* I/O failures injected so far
    pc,          \* pc[c]: "idle", "open", "write", "done"
    fe,          \* fe[c]: the front-end call c was sent to
    op,          \* op[c]: "add" or "list"
    req,         \* req[c]: the request of an add
    books,       \* books[c]: the handler's local list `books`
    book,        \* book[c]: the handler's local dict `book`
    pos,         \* pos[c]: chunks the handler has written to its file object
    ret,         \* ret[c]: the response: [status, book, list]
    \* history variables
    fs0,         \* the file system when the servers started
    startFs,     \* startFs[c]: the file of c's store when c started
    overlapped,  \* overlapped[c]: another add on c's store was in flight during c
    follows,     \* follows[c]: the call that had just completed when c started
                 \*   with nothing else in flight (0: none)
    prevAdd,     \* prevAdd[c]: the add that last completed on c's store before c
    during,      \* during[c]: for a list, the adds that were writing when it read
    lastDone,    \* the call that completed last
    lastAdd,     \* lastAdd[p]: the add that completed last on path p
    \* a client that sends one request at a time and waits for the response
    log,         \* the requests it has sent, each with its response
    seed         \* CatalogSeeder.seed_both: [stage, books, i]

vars == <<fs, faults, pc, fe, op, req, books, book, pos, ret, fs0, startFs,
          overlapped, follows, prevAdd, during, lastDone, lastAdd, log, seed>>

\* The state of the one-request-at-a-time client.
cvars == <<log, seed>>

\* The state of the concurrent request handlers.
hvars == <<faults, pc, fe, op, req, books, book, pos, ret, startFs,
           overlapped, follows, prevAdd, during, lastDone, lastAdd>>

hist == <<fs0, startFs, overlapped, follows, prevAdd, during, lastDone, lastAdd>>

NoRet == [status |-> "none", book |-> NoBook, list |-> <<>>]

\* ------------------------------------------------------------ the handlers
\* load_books(): [] when the file does not exist, else json.load of it.
load_books_masking(p) ==
    IF ~fs[p].exists THEN [ok |-> TRUE, books |-> <<>>]
    ELSE [ok |-> TRUE, books |-> json_load(fs[p].data).books]

\* load_books() without the os.path.exists test: open() of a missing file raises.
load_books_unguarded(p) ==
    IF ~fs[p].exists THEN [ok |-> FALSE, books |-> <<>>]
    ELSE json_load(fs[p].data)

load_books(p) ==
    IF ~fs[p].exists THEN [ok |-> TRUE, books |-> <<>>]
    ELSE json_load(fs[p].data)

RECURSIVE MaxId(_)
MaxId(bs) == IF bs = <<>> THEN 0
             ELSE LET m == MaxId(Tail(bs)) IN
                  IF Head(bs).id > m THEN Head(bs).id ELSE m

\* new_id = max((b["id"] for b in books), default=0) + 1
new_id_by_count(bs) == Len(bs) + 1

new_id(bs) == MaxId(bs) + 1

\* ---------------------------------------------------------- file objects
\* open(DB_PATH, "w") truncates the file (creating it when absent) and gives
\* the handler a file object of its own, positioned at 0.
Truncated == [exists |-> TRUE, data |-> <<>>]

Max(a, b) == IF a > b THEN a ELSE b

\* write(2) at the file object's offset: the chunks replace what the file
\* holds there, the file grows as needed, and a gap between the end of the
\* file and the offset reads as NUL.
WriteAt(data, off, chunk) ==
    [i \in 1..Max(Len(data), off + Len(chunk)) |->
        IF i > off /\ i <= off + Len(chunk) THEN chunk[i - off]
        ELSE IF i <= Len(data) THEN data[i] ELSE NUL]

SubSeqFrom(s, off, k) == [i \in 1..k |-> s[off + i]]

\* ------------------------------------------------------------- bookkeeping
Running(c) == pc[c] \in {"open", "write"}

InFlightAdds(p) ==
    {a \in Calls : Running(a) /\ op[a] = "add" /\ DB_PATH(fe[a]) = p}

WritingAdds(p) ==
    {a \in Calls : pc[a] = "write" /\ op[a] = "add" /\ DB_PATH(fe[a]) = p}

\* Calls are issued in the order of their numbers.
Startable(c) ==
    /\ pc[c] = "idle"
    /\ IF c = 1 THEN TRUE ELSE pc[c - 1] # "idle"
    /\ Cardinality({d \in Calls : Running(d)}) < MaxRunning

Begin(c, f, o, r) ==
    LET p == DB_PATH(f) IN
    /\ fe' = [fe EXCEPT ![c] = f]
    /\ op' = [op EXCEPT ![c] = o]
    /\ req' = [req EXCEPT ![c] = r]
    /\ startFs' = [startFs EXCEPT ![c] = fs[p]]
    /\ follows' = [follows EXCEPT ![c] =
                      IF \A d \in Calls : ~Running(d) THEN lastDone ELSE 0]
    /\ prevAdd' = [prevAdd EXCEPT ![c] = lastAdd[p]]
    /\ overlapped' = IF o = "add" /\ InFlightAdds(p) # {}
                     THEN [d \in Calls |->
                             d = c \/ d \in InFlightAdds(p) \/ overlapped[d]]
                     ELSE overlapped
    /\ UNCHANGED fs0

\* The handler returns (or raises): the response goes to the client.
Return(c, r) ==
    /\ pc' = [pc EXCEPT ![c] = "done"]
    /\ ret' = [ret EXCEPT ![c] = r]
    /\ lastDone' = c

Ok(b, l) == [status |-> "ok", book |-> b, list |-> l]
Error == [status |-> "error", book |-> NoBook, list |-> <<>>]

\* jsonify(book), 201 and jsonify(load_books()): the dicts as they are.
add_book_response(b) == Ok(b, <<>>)
list_books_response(bs) == Ok(NoBook, bs)

\* book_pb2.Book(id=b["id"], title=b["title"], author=b["author"],
\* year=b["year"]): a message built field by field.
PbBook(i, t, a, y) == Book(i, t, a, y)

\* AddBookResponse(book=Book(...)) with title and author exchanged.
AddBookResponseSwapped(b) == Ok(PbBook(b.id, b.author, b.title, b.year), <<>>)

AddBookResponse(b) == Ok(PbBook(b.id, b.title, b.author, b.year), <<>>)

ListBooksResponse(bs) ==
    Ok(NoBook, [i \in 1..Len(bs) |->
                  PbBook(bs[i].id, bs[i].title, bs[i].author, bs[i].year)])

\* ------------------------------------------------------------------- list
\* GET /books and ListBooks: load_books() and return what it gave; an
\* exception of json.load leaves the handler as an error response.
ListHandler(c, f) ==
    LET p == DB_PATH(f)
        l == load_books(p) IN
    /\ Startable(c)
    /\ Begin(c, f, "list", CHOOSE r \in Requests : TRUE)
    /\ during' = [during EXCEPT ![c] = WritingAdds(p)]
    /\ Return(c, IF ~l.ok THEN Error
                 ELSE IF f = "rest" THEN list_books_response(l.books)
                 ELSE ListBooksResponse(l.books))
    /\ UNCHANGED <<fs, faults, books, book, pos, lastAdd>>

list_books(c) == ListHandler(c, "rest")

ListBooks(c) == ListHandler(c, "grpc")

\* -------------------------------------------------------------------- add
\* The book the handler builds from the request and the list it loaded.
\* data[k] (and request.k, which is always there): the value, or KeyError.
None(k) == IF k = "year" THEN 0 ELSE "None"

\* data.get(k): None instead of KeyError.
LookupGet(r, k) ==
    [raised |-> FALSE, v |-> IF k \in DOMAIN r THEN r[k] ELSE None(k)]

Lookup(r, k) ==
    IF k \in DOMAIN r THEN [raised |-> FALSE, v |-> r[k]]
    ELSE [raised |-> TRUE, v |-> None(k)]

\* The new book with the id the caller sent, when it sent one.
NewBookCallerId(bs, r) ==
    Book(IF "id" \in DOMAIN r THEN r.id ELSE new_id(bs),
         Lookup(r, "title").v, Lookup(r, "author").v, Lookup(r, "year").v)

NewBook(bs, r) ==
    Book(new_id(bs), Lookup(r, "title").v, Lookup(r, "author").v,
         Lookup(r, "year").v)

\* books.append(book)
PrependBook(bs, b) == <<b>> \o bs

AppendBook(bs, b) == Append(bs, b)

\* data["title"], data["author"], data["year"]: a missing key raises
\* KeyError.  The fields of an AddBookRequest are always there.
Keys(f, r) ==
    f = "grpc" \/ \A k \in {"title", "author", "year"} : ~Lookup(r, k).raised

\* The handler up to books.append(book): load_books(), new_id, book,
\* append.  An exception on the way (json.load, KeyError) ends the handler.
AddPlan(f, r) ==
    LET l == load_books(DB_PATH(f)) IN
    IF l.ok /\ Keys(f, r)
    THEN [ok |-> TRUE,
          book |-> NewBook(l.books, r),
          books |-> AppendBook(l.books, NewBook(l.books, r))]
    ELSE [ok |-> FALSE, book |-> NoBook, books |-> <<>>]

\* POST /books and AddBook up to books.append(book): load, number, append.
AddHandler(c, f, r) ==
    LET p == DB_PATH(f)
        l == AddPlan(f, r) IN
    /\ Startable(c)
    /\ Begin(c, f, "add", r)
    /\ IF l.ok
       THEN /\ book' = [book EXCEPT ![c] = l.book]
            /\ books' = [books EXCEPT ![c] = l.books]
            /\ pc' = [pc EXCEPT ![c] = "open"]
            /\ UNCHANGED <<ret, lastDone, lastAdd>>
       ELSE /\ Return(c, Error)
            /\ lastAdd' = [lastAdd EXCEPT ![p] = c]
            /\ UNCHANGED <<books, book>>
    /\ UNCHANGED <<fs, faults, pos, during>>

add_book(c) == \E r \in Bodies : AddHandler(c, "rest", r)

AddBook(c) == \E r \in Requests : AddHandler(c, "grpc", r)

\* save_books(books), first half: open(DB_PATH, "w").
\* open(DB_PATH, "w") that waits while the file holds an unfinished
\* document, as if every writer held the file until it had written it all.
save_books_open_exclusive(c) ==
    LET p == DB_PATH(fe[c]) IN
    /\ pc[c] = "open"
    /\ fs[p].exists => WellFormed(fs[p].data)
    /\ fs' = [fs EXCEPT ![p] = Truncated]
    /\ pc' = [pc EXCEPT ![c] = "write"]
    /\ pos' = [pos EXCEPT ![c] = 0]
    /\ UNCHANGED <<faults, fe, op, req, books, book, ret, hist>>

save_books_open(c) ==
    LET p == DB_PATH(fe[c]) IN
    /\ pc[c] = "open"
    /\ fs' = [fs EXCEPT ![p] = Truncated]
    /\ pc' = [pc EXCEPT ![c] = "write"]
    /\ pos' = [pos EXCEPT ![c] = 0]
    /\ UNCHANGED <<faults, fe, op, req, books, book, ret, hist>>

\* save_books(books), second half: json.dump's chunks reach the file in one
\* or more writes; after the last one the file is closed and the handler
\* returns the created book.
save_books_write(c) ==
    LET p == DB_PATH(fe[c])
        doc == json_dump(books[c]) IN
    /\ pc[c] = "write"
    /\ \E k \in 1..(Len(doc) - pos[c]) :
         /\ fs' = [fs EXCEPT ![p].data =
                      WriteAt(@, pos[c], SubSeqFrom(doc, pos[c], k))]
         /\ pos' = [pos EXCEPT ![c] = @ + k]
         /\ IF pos[c] + k = Len(doc)
            THEN /\ Return(c, IF fe[c] = "rest" THEN add_book_response(book[c])
                               ELSE AddBookResponse(book[c]))
                 /\ lastAdd' = [lastAdd EXCEPT ![p] = c]
            ELSE UNCHANGED <<pc, ret, lastDone, lastAdd>>
    /\ UNCHANGED <<faults, fe, op, req, books, book, fs0, startFs, overlapped,
                   follows, prevAdd, during>>

\* The environment: open(DB_PATH, "w") raises (read-only medium): nothing
\* is truncated and the exception leaves the handler.
open_fails(c) ==
    LET p == DB_PATH(fe[c]) IN
    /\ pc[c] = "open"
    /\ faults < MaxFaults
    /\ faults' = faults + 1
    /\ Return(c, Error)
    /\ lastAdd' = [lastAdd EXCEPT ![p] = c]
    /\ UNCHANGED <<fs, fe, op, req, books, book, pos, fs0, startFs, overlapped,
                   follows, prevAdd, during>>

\* The environment: a write raises (medium full or gone) before the whole
\* document is out: the file keeps what reached it.
write_fails(c) ==
    LET p == DB_PATH(fe[c]) IN
    /\ pc[c] = "write"
    /\ pos[c] < Len(json_dump(books[c]))
    /\ faults < MaxFaults
    /\ faults' = faults + 1
    /\ Return(c, Error)
    /\ lastAdd' = [lastAdd EXCEPT ![p] = c]
    /\ UNCHANGED <<fs, fe, op, req, books, book, pos, fs0, startFs, overlapped,
                   follows, prevAdd, during>>

\* The seeder before seed_both is called.
SeederOff == [stage |-> "off", books |-> <<>>, i |-> 0]

\* ---------------------------------------------------------- specification
Init ==
    /\ fs \in [Paths -> InitStores]
    /\ fs0 = fs
    /\ faults = 0
    /\ pc = [c \in Calls |-> "idle"]
    /\ fe = [c \in Calls |-> "rest"]
    /\ op = [c \in Calls |-> "list"]
    /\ req = [c \in Calls |-> CHOOSE r \in Requests : TRUE]
    /\ books = [c \in Calls |-> <<>>]
    /\ book = [c \in Calls |-> NoBook]
    /\ pos = [c \in Calls |-> 0]
    /\ ret = [c \in Calls |-> NoRet]
    /\ startFs = [c \in Calls |-> Absent]
    /\ overlapped = [c \in Calls |-> FALSE]
    /\ follows = [c \in Calls |-> 0]
    /\ prevAdd = [c \in Calls |-> 0]
    /\ during = [c \in Calls |-> {}]
    /\ lastDone = 0
    /\ lastAdd = [p \in Paths |-> 0]
    /\ log = <<>>
    /\ seed = SeederOff

Next ==
    \E c \in Calls :
        \/ list_books(c) /\ UNCHANGED cvars
        \/ ListBooks(c) /\ UNCHANGED cvars
        \/ add_book(c) /\ UNCHANGED cvars
        \/ AddBook(c) /\ UNCHANGED cvars
        \/ save_books_open(c) /\ UNCHANGED cvars
        \/ save_books_write(c) /\ UNCHANGED cvars
        \/ open_fails(c) /\ UNCHANGED cvars
        \/ write_fails(c) /\ UNCHANGED cvars

Spec == Init /\ [][Next]_vars

\* The same servers under clients that never send an add to a store while
\* another add on that store is in progress (the handlers take no lock: the
\* restraint is the clients').  Lists, adds on the other store and I/O
\* failures interleave freely.
NoAddRunning(f) == InFlightAdds(DB_PATH(f)) = {}

NextSeq ==
    \E c \in Calls :
        \/ list_books(c) /\ UNCHANGED cvars
        \/ ListBooks(c) /\ UNCHANGED cvars
        \/ NoAddRunning("rest") /\ add_book(c) /\ UNCHANGED cvars
        \/ NoAddRunning("grpc") /\ AddBook(c) /\ UNCHANGED cvars
        \/ save_books_open(c) /\ UNCHANGED cvars
        \/ save_books_write(c) /\ UNCHANGED cvars
        \/ open_fails(c) /\ UNCHANGED cvars
        \/ write_fails(c) /\ UNCHANGED cvars

SpecSeq == Init /\ [][NextSeq]_vars

\* The servers with their handler threads scheduled fairly: each request
\* runs on a thread of its own (ThreadPoolExecutor worker, Flask's threaded
\* server), and a thread that can take its next step (the open, a write, or
\* the exception either raises) eventually takes it.  When requests arrive
\* is the clients' choice and is under no fairness.
HandlerStep(c) ==
    /\ \/ save_books_open(c)
       \/ save_books_write(c)
       \/ open_fails(c)
       \/ write_fails(c)
    /\ UNCHANGED cvars

\* Both servers start on stores with the same contents.
InitFair == Init /\ \A p, q \in Paths : fs[p] = fs[q]

FairSpec ==
    InitFair /\ [][Next]_vars /\ \A c \in Calls : WF_vars(HandlerStep(c))

\* --------------------------------------------- one request at a time
\* A client that waits for each response before it sends the next request,
\* with no other client: every handler runs from its first line to its
\* return with nothing in between, so one step is the whole handler.
MaxOps == 4        \* requests the client sends in one behaviour

AddResponse(f, b) == IF f = "rest" THEN add_book_response(b) ELSE AddBookResponse(b)
ListResponse(f, bs) ==
    IF f = "rest" THEN list_books_response(bs) ELSE ListBooksResponse(bs)

\* File and response of add_book / AddBook run alone on request r.
AddAlone(f, r) ==
    LET plan == AddPlan(f, r) IN
    IF plan.ok
    THEN [file |-> Stored(plan.books), resp |-> AddResponse(f, plan.book)]
    ELSE [file |-> fs[DB_PATH(f)], resp |-> Error]

\* Response of list_books / ListBooks run alone.
ListAlone(f) ==
    LET l == load_books(DB_PATH(f)) IN
    IF l.ok THEN ListResponse(f, l.books) ELSE Error

Entry(f, o, r, resp, before, after) ==
    [fe |-> f, op |-> o, req |-> r, resp |-> resp, before |-> before,
     after |-> after]

NoRequest == [title |-> "", author |-> "", year |-> 0]

SoloAdd(f, r) ==
    LET p == DB_PATH(f)
        out == AddAlone(f, r) IN
    /\ Len(log) < MaxOps
    /\ fs' = [fs EXCEPT ![p] = out.file]
    /\ log' = Append(log, Entry(f, "add", r, out.resp, fs[p], out.file))
    /\ UNCHANGED <<fs0, seed, hvars>>

SoloList(f) ==
    LET p == DB_PATH(f) IN
    /\ Len(log) < MaxOps
    /\ log' = Append(log, Entry(f, "list", NoRequest, ListAlone(f), fs[p], fs[p]))
    /\ UNCHANGED <<fs, fs0, seed, hvars>>

solo_add_book == \E r \in Bodies \cup MalformedBodies : SoloAdd("rest", r)
solo_AddBook == \E r \in Requests : SoloAdd("grpc", r)
solo_list_books == SoloList("rest")
solo_ListBooks == SoloList("grpc")

NextSolo ==
    \/ solo_add_book
    \/ solo_AddBook
    \/ solo_list_books
    \/ solo_ListBooks

SpecSolo == Init /\ [][NextSolo]_vars

\* ------------------------------------------------- the same to both servers
\* The client sends every request to the REST server and then to the gRPC
\* server, starting from stores with equal contents.
InitTwin == Init /\ \A p, q \in Paths : fs[p] = fs[q]

TwinAdd ==
    \E r \in Requests :
        LET outR == AddAlone("rest", r)
            outG == AddAlone("grpc", r) IN
        /\ Len(log) < 2 * MaxOps
        /\ fs' = [p \in Paths |-> IF p = DB_PATH("rest") THEN outR.file
                                   ELSE outG.file]
        /\ log' = log \o
              << Entry("rest", "add", r, outR.resp, fs[DB_PATH("rest")], outR.file),
                 Entry("grpc", "add", r, outG.resp, fs[DB_PATH("grpc")], outG.file) >>
        /\ UNCHANGED <<fs0, seed, hvars>>

TwinList ==
    /\ Len(log) < 2 * MaxOps
    /\ log' = log \o
          << Entry("rest", "list", NoRequest, ListAlone("rest"),
                   fs[DB_PATH("rest")], fs[DB_PATH("rest")]),
             Entry("grpc", "list", NoRequest, ListAlone("grpc"),
                   fs[DB_PATH("grpc")], fs[DB_PATH("grpc")]) >>
    /\ UNCHANGED <<fs, fs0, seed, hvars>>

NextTwin == TwinAdd \/ TwinList

SpecTwin == InitTwin /\ [][NextTwin]_vars

\* ------------------------------------------------------------ the seeder
MaxSeed == 2       \* books handed to seed_both

RECURSIVE SeqsUpTo(_, _)
SeqsUpTo(S, n) ==
    IF n = 0 THEN {<<>>}
    ELSE LET shorter == SeqsUpTo(S, n - 1) IN
         shorter \cup {Append(q, x) : q \in shorter, x \in S}

\* seed_both(books) has been called and is about to seed REST.
InitSeed ==
    /\ fs \in [Paths -> InitStores]
    /\ fs0 = fs
    /\ faults = 0
    /\ pc = [c \in Calls |-> "idle"]
    /\ fe = [c \in Calls |-> "rest"]
    /\ op = [c \in Calls |-> "list"]
    /\ req = [c \in Calls |-> CHOOSE r \in Requests : TRUE]
    /\ books = [c \in Calls |-> <<>>]
    /\ book = [c \in Calls |-> NoBook]
    /\ pos = [c \in Calls |-> 0]
    /\ ret = [c \in Calls |-> NoRet]
    /\ startFs = [c \in Calls |-> Absent]
    /\ overlapped = [c \in Calls |-> FALSE]
    /\ follows = [c \in Calls |-> 0]
    /\ prevAdd = [c \in Calls |-> 0]
    /\ during = [c \in Calls |-> {}]
    /\ lastDone = 0
    /\ lastAdd = [p \in Paths |-> 0]
    /\ log = <<>>
    /\ \E bs \in SeqsUpTo(Requests, MaxSeed) :
          seed = [stage |-> "rest", books |-> bs, i |-> 1]

\* One element of seed_rest's / seed_grpc's list comprehension: _rest_add or
\* _grpc_add of books[i].  raise_for_status() (an RpcError for gRPC) ends
\* seed_both on an error response; after the last book of REST the seeder
\* goes on to gRPC, after the last book of gRPC it is done.
SeedStep(f) ==
    LET p == DB_PATH(f)
        out == AddAlone(f, Asked(seed.books[seed.i])) IN
    /\ seed.stage = f
    /\ seed.i <= Len(seed.books)
    /\ fs' = [fs EXCEPT ![p] = out.file]
    /\ seed' = IF out.resp.status = "error"
               THEN [seed EXCEPT !.stage = "failed"]
               ELSE [seed EXCEPT !.i = @ + 1]
    /\ UNCHANGED <<fs0, log, hvars>>

SeedNext(f, nextStage) ==
    /\ seed.stage = f
    /\ seed.i > Len(seed.books)
    /\ seed' = [seed EXCEPT !.stage = nextStage, !.i = 1]
    /\ UNCHANGED <<fs, fs0, log, hvars>>

seed_rest == SeedStep("rest") \/ SeedNext("rest", "grpc")

seed_grpc == SeedStep("grpc") \/ SeedNext("grpc", "done")

\* After seed_both has returned the client lists both servers.
Seeded == seed.stage = "done"

NextSeed ==
    \/ seed_rest
    \/ seed_grpc
    \/ Seeded /\ solo_list_books
    \/ Seeded /\ solo_ListBooks

SpecSeed == InitSeed /\ [][NextSeed]_vars

\* ------------------------------------------------- vocabulary of the claims
Path(c) == DB_PATH(fe[c])
Range(s) == {s[i] : i \in DOMAIN s}
Maximum(S) == CHOOSE m \in S : \A x \in S : x <= m

DoneAdd(c) == pc[c] = "done" /\ op[c] = "add"
OkAdd(c) == DoneAdd(c) /\ ret[c].status = "ok"
FailedAdd(c) == DoneAdd(c) /\ ret[c].status = "error"
DoneList(c) == pc[c] = "done" /\ op[c] = "list"
OkList(c) == DoneList(c) /\ ret[c].status = "ok"
StartedAdds(p) == {c \in Calls : pc[c] # "idle" /\ op[c] = "add" /\ Path(c) = p}
OkAdds(p) == {c \in Calls : OkAdd(c) /\ Path(c) = p}

\* A file a reader can take in: absent (no records) or a complete document.
Readable(file) == ~file.exists \/ WellFormed(file.data)
RecordsOf(file) == IF file.exists THEN json_load(file.data).books ELSE <<>>
\* The ids of the objects a file holds, complete or not.
StoredObjs(file) ==
    {file.data[i].book : i \in {j \in DOMAIN file.data : file.data[j].kind = "obj"}}
StoredIds(file) == {b.id : b \in StoredObjs(file)}
GreatestId(file) == Maximum(StoredIds(file) \cup {0})

\* The add failed while persisting: it had loaded and built its list.
SaveFailed(c) == FailedAdd(c) /\ books[c] # <<>>

\* ------------------------------------------------------------------ claims

\* C1: the ids returned by successful adds against the same backing store
\* are pairwise distinct, overlapping calls included.
UniqueReturnedIds ==
    \A c, d \in Calls :
        (c # d /\ OkAdd(c) /\ OkAdd(d) /\ Path(c) = Path(d))
            => ret[c].book.id # ret[d].book.id

\* C2: once N >= 2 concurrent adds on a store have all returned
\* successfully (and no other add was issued on it) the store holds the
\* records it started with followed by N new ones, one per call, with ids
\* previous max + 1 .. previous max + N.
NoLostUpdate ==
    \A p \in Paths :
        LET A == OkAdds(p)
            n == Cardinality(A) IN
        (A = StartedAdds(p) /\ n >= 2 /\ \A c \in A : overlapped[c])
            => /\ Readable(fs[p])
               /\ Len(RecordsOf(fs[p])) = Len(RecordsOf(fs0[p])) + n
               /\ \A c \in A : ret[c].book \in Range(RecordsOf(fs[p]))
               /\ {ret[c].book.id : c \in A} =
                      (GreatestId(fs0[p]) + 1)..(GreatestId(fs0[p]) + n)

\* C3: a list through one front-end that follows a successful add through
\* the other front-end contains the record the add returned.
CrossFrontEndVisibility ==
    \A c \in Calls :
        (DoneList(c) /\ follows[c] # 0 /\ OkAdd(follows[c])
            /\ fe[follows[c]] # fe[c])
            => /\ ret[c].status = "ok"
               /\ ret[follows[c]].book \in Range(ret[c].list)

\* C4: a list that reads while an add is between its open-for-writing and
\* the end of its write returns the complete record sequence of before
\* that add or of after it, never an error or a partial store.
ListSeesPreOrPost ==
    \A c \in Calls :
        (DoneList(c) /\ during[c] # {})
            => /\ ret[c].status = "ok"
               /\ \E a \in during[c] :
                     \/ ret[c].list = RecordsOf(startFs[a])
                     \/ ret[c].list = books[a]

\* C5: a successful add that overlaps no other add returns id 1 + the
\* greatest id in the store when the call started, 1 for an empty or absent
\* store; gaps are not reused.
MonotonicIdAssignment ==
    \A c \in Calls :
        (OkAdd(c) /\ ~overlapped[c])
            => ret[c].book.id = 1 + GreatestId(startFs[c])

MonotonicIdWitness ==
    \E c \in Calls :
        /\ OkAdd(c) /\ ~overlapped[c]
        /\ startFs[c] = Stored(<<Old(1), Old(3)>>)
        /\ ret[c].book.id = 4

NoMutation ==
    \A c \in Calls :
        OkAdd(c) =>
            \A b \in StoredObjs(fs[Path(c)]) :
                b.id = ret[c].book.id => b = ret[c].book

\* C8: when a successful add that overlaps no other add returns, the store
\* holds the record sequence it held when the add started followed by the
\* returned record: nothing removed, changed or reordered, one record more.
AppendOnly ==
    [][\A c \in Calls :
          (pc[c] # "done" /\ pc'[c] = "done" /\ op'[c] = "add"
              /\ ret'[c].status = "ok" /\ ~overlapped'[c])
              => /\ Readable(fs'[DB_PATH(fe'[c])])
                 /\ RecordsOf(fs'[DB_PATH(fe'[c])])
                       = RecordsOf(startFs'[c]) \o <<ret'[c].book>>]_vars

AppendOnlyWitness ==
    \E c \in Calls :
        /\ OkAdd(c) /\ ~overlapped[c] /\ lastDone = c
        /\ RecordsOf(startFs[c]) # <<>>
        /\ RecordsOf(fs[Path(c)]) = RecordsOf(startFs[c]) \o <<ret[c].book>>

\* C9: when persisting fails during an add, at the open or during the
\* write, the add returns no record and a following list returns exactly
\* the record sequence stored before the add.
FailedSaveLeavesStore ==
    \A c \in Calls :
        (DoneList(c) /\ follows[c] # 0 /\ SaveFailed(follows[c])
            /\ ~overlapped[follows[c]] /\ fe[follows[c]] = fe[c])
            => /\ ret[follows[c]].book = NoBook
               /\ ret[c].status = "ok"
               /\ ret[c].list = RecordsOf(startFs[follows[c]])

\* C10: an add that fails burns no id: the successful add that comes next
\* on the store (neither overlapping another add) returns 1 + the greatest
\* id the store held when the failed add started, the id it would have
\* been given without the failed add.
FailedAddBurnsNoId ==
    \A s \in Calls :
        (OkAdd(s) /\ ~overlapped[s] /\ prevAdd[s] # 0
            /\ FailedAdd(prevAdd[s]) /\ ~overlapped[prevAdd[s]])
            => ret[s].book.id = 1 + GreatestId(startFs[prevAdd[s]])

FailedAddBurnsNoIdWitness ==
    \E s \in Calls :
        /\ OkAdd(s) /\ ~overlapped[s] /\ prevAdd[s] # 0
        /\ SaveFailed(prevAdd[s]) /\ ~overlapped[prevAdd[s]]
        /\ ret[s].book.id = 4

\* C11: of two successful adds that overlap nothing, the second issued
\* right after the first returned and through the other front-end, the
\* second returns a strictly greater id (from empty stores 1 then 2).
NextAddSeesOtherFrontEnd ==
    \A c \in Calls :
        (OkAdd(c) /\ ~overlapped[c] /\ follows[c] # 0 /\ OkAdd(follows[c])
            /\ ~overlapped[follows[c]] /\ fe[follows[c]] # fe[c])
            => ret[c].book.id > ret[follows[c]].book.id

\* C12: in a store no add is writing to, no two stored records have the
\* same id, whatever adds and lists ran before and however they interleaved.
ObjPositions(file) == {i \in DOMAIN file.data : file.data[i].kind = "obj"}

StoredIdsUnique ==
    \A p \in Paths :
        WritingAdds(p) = {} =>
            \A i, j \in ObjPositions(fs[p]) :
                i # j => fs[p].data[i].book.id # fs[p].data[j].book.id

StoredIdsUniqueWitness ==
    \E p \in Paths :
        /\ WritingAdds(p) = {}
        /\ \E c, d \in OkAdds(p) : c # d /\ overlapped[c] /\ overlapped[d]
        /\ Cardinality(ObjPositions(fs[p])) >= 3

\* C13: no two adds on the same store are at the same time between their
\* load of the records and the completion of their save.
AddsSerialized ==
    \A p \in Paths : Cardinality(InFlightAdds(p)) <= 1

\* C14: a list leaves every backing file as it was (an absent file stays
\* absent) and on a store with no records or no file it returns the empty
\* sequence, not an error.
NoRecords(file) == ~file.exists \/ file.data = json_dump(<<>>)

ListReadOnly ==
    [][\A c \in Calls :
          (pc[c] = "idle" /\ pc'[c] = "done" /\ op'[c] = "list")
              => /\ fs' = fs
                 /\ NoRecords(fs[DB_PATH(fe'[c])])
                       => (ret'[c].status = "ok" /\ ret'[c].list = <<>>)]_vars

ListReadOnlyWitness ==
    \E c \in Calls :
        /\ OkList(c) /\ startFs[c] = Absent /\ fs[Path(c)] = Absent
        /\ ret[c].list = <<>>

\* C15: an add never ends in an error merely because other adds or lists
\* were in progress on its store: with no I/O failure injected every add
\* that has ended has succeeded.
AddsAlwaysSucceed ==
    \A c \in Calls : (DoneAdd(c) /\ faults = 0) => ret[c].status = "ok"

\* C16: when the backing file exists and does not parse, a list ends in an
\* error (never a successful empty result) and an add ends in an error
\* without writing anything.
Corrupt(file) == file.exists /\ ~WellFormed(file.data)

StorageFailureNotMasked ==
    [][\A c \in Calls :
          (pc[c] = "idle" /\ pc'[c] # "idle" /\ Corrupt(fs[DB_PATH(fe'[c])]))
              => /\ pc'[c] = "done"
                 /\ ret'[c].status = "error"
                 /\ fs' = fs]_vars

StorageFailureNotMaskedWitness ==
    /\ \E c \in Calls : DoneList(c) /\ Corrupt(startFs[c]) /\ ret[c].status = "error"
    /\ \E c \in Calls : DoneAdd(c) /\ Corrupt(startFs[c]) /\ ret[c].status = "error"
                           /\ fs[Path(c)] = startFs[c]

SeedBothIdentical ==
    Seeded =>
        \A i, j \in DOMAIN log :
            (log[i].fe = "rest" /\ log[i].op = "list"
                /\ log[j].fe = "grpc" /\ log[j].op = "list")
                => log[i].resp = log[j].resp

\* C19: every id is at least 1 and assigned by the store: every object in
\* every file has an id >= 1, and the id a successful add returns is one
\* more than the greatest id of the records it loaded, whatever id the
\* caller's body carried.
IdsPositiveAndStoreAssigned ==
    /\ \A p \in Paths : \A i \in StoredIds(fs[p]) : i \in Nat /\ i >= 1
    /\ \A c \in Calls :
          OkAdd(c) => /\ ret[c].book.id \in Nat
                      /\ ret[c].book.id >= 1
                      /\ ret[c].book.id = 1 + GreatestId(startFs[c])

IdsPositiveAndStoreAssignedWitness ==
    /\ \E c \in Calls :
          /\ OkAdd(c) /\ fe[c] = "rest" /\ "id" \in DOMAIN req[c]
          /\ req[c].id = 99 /\ ret[c].book.id = 4
    /\ \E c \in Calls :
          /\ OkAdd(c) /\ fe[c] = "rest" /\ "id" \in DOMAIN req[c]
          /\ req[c].id = 0 /\ ret[c].book.id = 5

\* C20: a REST add whose body lacks title, author or year ends in an
\* error, returns no record and leaves the backing file as it was (absent
\* if it was absent).
LacksField(r) == ~({"title", "author", "year"} \subseteq DOMAIN r)

MissingFieldAddFails ==
    \A i \in DOMAIN log :
        (log[i].fe = "rest" /\ log[i].op = "add" /\ LacksField(log[i].req))
            => /\ log[i].resp = Error
               /\ log[i].after = log[i].before
               /\ (i = Len(log) => fs[DB_PATH("rest")] = log[i].before)

MissingFieldAddFailsWitness ==
    /\ \E i \in DOMAIN log :
          /\ log[i].fe = "rest" /\ log[i].op = "add" /\ LacksField(log[i].req)
          /\ log[i].before = Absent /\ log[i].after = Absent
    /\ \E i \in DOMAIN log :
          /\ log[i].fe = "rest" /\ log[i].op = "add" /\ LacksField(log[i].req)
          /\ log[i].before.exists /\ Len(RecordsOf(log[i].before)) = 1
          /\ log[i].resp.status = "error"

\* C21: under fair scheduling of the handlers every invoked add or list
\* eventually returns a result or an error, whatever other calls are in
\* progress on the same store: no call is blocked forever.
Invoked(c) == pc[c] # "idle"
Returned(c) == pc[c] = "done" /\ ret[c].status \in {"ok", "error"}

EveryCallReturns == \A c \in Calls : Invoked(c) ~> Returned(c)

\* An add has returned although another add was writing the same file
\* when it opened it, and a list has returned that ran during a write.
EveryCallReturnsWitness ==
    /\ \E c, d \in Calls :
          /\ c # d /\ DoneAdd(c) /\ DoneAdd(d) /\ Path(c) = Path(d)
          /\ overlapped[c] /\ overlapped[d]
          /\ Returned(c) /\ Returned(d)
    /\ \E l \in Calls : DoneList(l) /\ during[l] # {} /\ Returned(l)

====
